---- MODULE Spec2Model ----
(***************************************************************************)
(* Model of frontend/app.js: the subject-selection and generate handlers,  *)
(* renderTimetable (schedule mapping -> day x time-slot table) and the CSV *)
(* download handler.                                                       *)
(*                                                                         *)
(* A JavaScript string is a sequence of one-character strings.  A JS       *)
(* object is the sequence of its own properties in Object.keys order.      *)
(* The table held by timetableContainer is kept as its rows of cell        *)
(* textContent; the strings used contain no HTML markup characters, so the *)
(* text interpolated between <th>/<td> tags is the cell's textContent.     *)
(* The status check of init() and the search filter touch none of the      *)
(* state below and are left out.                                           *)
(***************************************************************************)
EXTENDS Integers, Sequences, FiniteSets, TLC

VARIABLES
    subjectsList,           \* subjects of the .subject-item elements shown
    subjectsShown,          \* subjectsContainer.style.display = 'block'
    selectedSubjects,       \* the selectedSubjects Set
    generateBtnDisabled,    \* generateBtn.disabled
    fetching,               \* /api/subjects requests awaiting their response
    generating,             \* bodies of /api/generate requests awaiting theirs
    data,                   \* result.data of the generate response
    rendered,               \* renderTimetable(data) has been called
    timetableContainer,     \* content of #timetableContainer
    rowData,                \* rowData arrays of the latest download handler run
    downloads,              \* CSV texts handed to the browser as files
    lastOp                  \* which of renderTimetable and the download
                            \* handler ran last

vars == <<subjectsList, subjectsShown, selectedSubjects, generateBtnDisabled,
          fetching, generating, data, rendered, timetableContainer, rowData,
          downloads, lastOp>>

uiVars == <<subjectsList, subjectsShown, selectedSubjects, generateBtnDisabled,
            fetching, generating>>

----------------------------------------------------------------------------
(* Bounds *)

MaxDays == 2
MaxSlots == 2
MaxInFlight == 2
MaxDownloads == 1

----------------------------------------------------------------------------
(* Characters and string helpers *)

Comma == ","
Quote == "\""
Newline == "\n"
WhiteSpace == {" ", "\n", "\t"}
Digits == {"0", "1", "2", "3", "4", "5", "6", "7", "8", "9"}

DigitVal(c) ==
    CASE c = "0" -> 0 [] c = "1" -> 1 [] c = "2" -> 2 [] c = "3" -> 3
      [] c = "4" -> 4 [] c = "5" -> 5 [] c = "6" -> 6 [] c = "7" -> 7
      [] c = "8" -> 8 [] c = "9" -> 9

Range(s) == {s[i] : i \in 1..Len(s)}

\* String.prototype.includes for a one-character needle
includes(s, c) == \E i \in 1..Len(s) : s[i] = c

\* index of the first occurrence of c in s at or after i, 0 when there is none
RECURSIVE IndexFrom(_, _, _)
IndexFrom(s, c, i) ==
    IF i > Len(s) THEN 0 ELSE IF s[i] = c THEN i ELSE IndexFrom(s, c, i + 1)

FirstIndex(s, c) == IndexFrom(s, c, 1)

RECURSIVE SkipSpaceFrom(_, _)
SkipSpaceFrom(s, i) ==
    IF i > Len(s) \/ s[i] \notin WhiteSpace THEN i ELSE SkipSpaceFrom(s, i + 1)

RECURSIVE SkipSpaceBack(_, _)
SkipSpaceBack(s, i) ==
    IF i < 1 \/ s[i] \notin WhiteSpace THEN i ELSE SkipSpaceBack(s, i - 1)

\* String.prototype.trim
trim(s) == SubSeq(s, SkipSpaceFrom(s, 1), SkipSpaceBack(s, Len(s)))

\* t.split('-')[0]
SplitFirst(s, sep) ==
    IF includes(s, sep) THEN SubSeq(s, 1, FirstIndex(s, sep) - 1) ELSE s

\* s.replace(a, b) with a string pattern: only the first occurrence
ReplaceFirst(s, a, b) ==
    IF includes(s, a) THEN [s EXCEPT ![FirstIndex(s, a)] = b] ELSE s

\* s.replace(/"/g, '""')
RECURSIVE DoubleQuotes(_)
DoubleQuotes(s) ==
    IF s = <<>> THEN <<>>
    ELSE (IF Head(s) = Quote THEN <<Quote, Quote>> ELSE <<Head(s)>>)
         \o DoubleQuotes(Tail(s))

\* Array.prototype.join
RECURSIVE join(_, _)
join(fields, sep) ==
    IF fields = <<>> THEN <<>>
    ELSE IF Len(fields) = 1 THEN fields[1]
    ELSE fields[1] \o <<sep>> \o join(Tail(fields), sep)

----------------------------------------------------------------------------
(* parseFloat and the time-slot comparator *)

\* A Number: NaN, or a non-negative decimal int.frac (frac: digit values,
\* trailing zeros removed).
NaN == [nan |-> TRUE, int |-> 0, frac |-> <<>>]

\* end of the run of digits of s that starts at i (i - 1 when there is none)
RECURSIVE DigitsEnd(_, _)
DigitsEnd(s, i) ==
    IF i > Len(s) \/ s[i] \notin Digits THEN i - 1 ELSE DigitsEnd(s, i + 1)

RECURSIVE DecimalValue(_)
DecimalValue(ds) ==
    IF ds = <<>> THEN 0
    ELSE 10 * DecimalValue(SubSeq(ds, 1, Len(ds) - 1)) + DigitVal(ds[Len(ds)])

RECURSIVE StripZeros(_)
StripZeros(ds) ==
    IF ds # <<>> /\ ds[Len(ds)] = 0 THEN StripZeros(SubSeq(ds, 1, Len(ds) - 1))
    ELSE ds

\* parseFloat: skip leading white space and a '+', then read the longest
\* prefix digits [ '.' digits ]; NaN when that prefix holds no digit.
\* (No string of the model starts with "Infinity" or has an exponent part;
\* a '-' cannot reach it, the caller having split on '-'.)
parseFloat(s) ==
    LET b  == SkipSpaceFrom(s, 1)
        i0 == IF b <= Len(s) /\ s[b] = "+" THEN b + 1 ELSE b
        e1 == DigitsEnd(s, i0)
        e2 == IF e1 < Len(s) /\ s[e1 + 1] = "." THEN DigitsEnd(s, e1 + 2) ELSE e1 + 1
    IN  IF e1 < i0 /\ e2 < e1 + 2 THEN NaN
        ELSE [nan  |-> FALSE,
              int  |-> DecimalValue(SubSeq(s, i0, e1)),
              frac |-> StripZeros([i \in 1..(e2 - e1 - 1) |-> DigitVal(s[e1 + 1 + i])])]

FracLess(a, b) ==
    \E i \in 1..Len(b) :
        /\ \A j \in 1..(i - 1) : j <= Len(a) /\ a[j] = b[j]
        /\ i > Len(a) \/ a[i] < b[i]

NumLess(x, y) == x.int < y.int \/ (x.int = y.int /\ FracLess(x.frac, y.frac))

\* hour-only reading of the start (parseInt in place of parseFloat)
parseTimeHourOnly(t) ==
    LET v == parseFloat(ReplaceFirst(trim(SplitFirst(t, "-")), ":", "."))
    IN  IF v.nan THEN v ELSE [v EXCEPT !.frac = <<>>]

\* parseTime of renderTimetable's comparator.  Neither split, trim, replace
\* nor parseFloat throws on a string, so the catch branch (return 99) is
\* never taken: a start that is no number yields NaN.
parseTime(t) ==
    LET first == trim(SplitFirst(t, "-"))
    IN  parseFloat(ReplaceFirst(first, ":", "."))

\* the operands of the subtraction swapped
SubtractSignSwapped(x, y) ==
    IF x.nan \/ y.nan THEN 0
    ELSE IF NumLess(y, x) THEN -1
    ELSE IF NumLess(x, y) THEN 1
    ELSE 0

\* sign of x - y as Array.prototype.sort reads it: a NaN difference counts
\* as +0
SubtractSign(x, y) ==
    IF x.nan \/ y.nan THEN 0
    ELSE IF NumLess(x, y) THEN -1
    ELSE IF NumLess(y, x) THEN 1
    ELSE 0

dayOrder == <<<<"M", "o", "n", "d", "a", "y">>,
             <<"T", "u", "e", "s", "d", "a", "y">>,
             <<"W", "e", "d", "n", "e", "s", "d", "a", "y">>,
             <<"T", "h", "u", "r", "s", "d", "a", "y">>,
             <<"F", "r", "i", "d", "a", "y">>,
             <<"S", "a", "t", "u", "r", "d", "a", "y">>,
             <<"S", "u", "n", "d", "a", "y">>>>

\* Array.prototype.indexOf, zero-based, -1 when absent
indexOf(arr, x) ==
    IF x \in Range(arr) THEN (CHOOSE i \in 1..Len(arr) : arr[i] = x) - 1 ELSE -1

Sign(n) == IF n < 0 THEN -1 ELSE IF n > 0 THEN 1 ELSE 0

\* sign of dayOrder.indexOf(a) - dayOrder.indexOf(b)
compareDays(a, b) == Sign(indexOf(dayOrder, a) - indexOf(dayOrder, b))

----------------------------------------------------------------------------
(* Array.prototype.sort(comparefn); cmp is comparefn tabulated on the      *)
(* elements: cmp[<<a, b>>] \in {-1, 0, 1}.                                 *)

\* ECMAScript's "consistent comparator" for the values of arr
ConsistentComparator(arr, cmp) ==
    LET S == Range(arr)
    IN  /\ \A a \in S : cmp[<<a, a>>] = 0
        /\ \A a, b \in S : cmp[<<a, b>>] = -cmp[<<b, a>>]
        /\ \A a, b, c \in S :
              /\ (cmp[<<a, b>>] = 0 /\ cmp[<<b, c>>] = 0) => cmp[<<a, c>>] = 0
              /\ (cmp[<<a, b>>] < 0 /\ cmp[<<b, c>>] < 0) => cmp[<<a, c>>] < 0
              /\ (cmp[<<a, b>>] > 0 /\ cmp[<<b, c>>] > 0) => cmp[<<a, c>>] > 0

\* the stable sort: arr[i] goes after every element that compares less and
\* after every earlier element that compares equal
StableSort(arr, cmp) ==
    LET n == Len(arr)
        rank(i) == Cardinality({j \in 1..n :
                       \/ cmp[<<arr[j], arr[i]>>] < 0
                       \/ cmp[<<arr[j], arr[i]>>] = 0 /\ j < i})
    IN  [k \in 1..n |-> arr[CHOOSE i \in 1..n : rank(i) = k - 1]]

PermutationsOf(arr) ==
    {[k \in 1..Len(arr) |-> arr[p[k]]] : p \in Permutations(1..Len(arr))}

\* The results sort may give: the stable sort under a consistent
\* comparator; otherwise the order is implementation-defined, any
\* permutation of the elements.
sort(arr, cmp) ==
    IF ConsistentComparator(arr, cmp) THEN {StableSort(arr, cmp)}
    ELSE PermutationsOf(arr)

----------------------------------------------------------------------------
(* JavaScript values and objects *)

Str(s) == [type |-> "string", str |-> s]
Undefined == [type |-> "undefined", str |-> <<>>]

\* Object.prototype: the properties every object parsed from JSON inherits
\* (those the model's keys can name), each with the text String() gives it
ObjectPrototype ==
    << [key |-> <<"c", "o", "n", "s", "t", "r", "u", "c", "t", "o", "r">>,
        val |-> [type |-> "function",
                 str  |-> <<"f", "u", "n", "c", "t", "i", "o", "n", " ", "O", "b", "j", "e", "c", "t", "(", ")", " ", "{", " ", "[", "n", "a", "t", "i", "v", "e", " ", "c", "o", "d", "e", "]", " ", "}">>] ] >>

\* Object.keys(obj)
Keys(obj) == [i \in 1..Len(obj) |-> obj[i].key]

OwnValue(obj, k) == obj[CHOOSE i \in 1..Len(obj) : obj[i].key = k].val

\* the property read obj[k]: own property, else the prototype's, else undefined
Get(obj, k) ==
    IF k \in Range(Keys(obj)) THEN OwnValue(obj, k)
    ELSE IF k \in Range(Keys(ObjectPrototype)) THEN OwnValue(ObjectPrototype, k)
    ELSE Undefined

\* ToBoolean is false for undefined and for the empty string
Falsy(v) == v.type = "undefined" \/ (v.type = "string" /\ v.str = <<>>)

\* the text a template literal interpolates for v
TemplateText(v) == IF v.type = "undefined" THEN <<"u", "n", "d", "e", "f", "i", "n", "e", "d">> ELSE v.str

----------------------------------------------------------------------------
(* renderTimetable *)

RECURSIVE Flatten(_)
Flatten(ss) == IF ss = <<>> THEN <<>> ELSE Head(ss) \o Flatten(Tail(ss))

\* every day's time keys pushed to an array, repeats kept
timeSlotsNoDedupe(d) == Flatten([i \in 1..Len(d) |-> Keys(d[i].val)])

\* the Set timeSlots in insertion order: every day's time keys, day by
\* day, a key already in the Set not added again
timeSlots(d) ==
    LET all  == Flatten([i \in 1..Len(d) |-> Keys(d[i].val)])
        kept == SelectSeq([i \in 1..Len(all) |-> i],
                          LAMBDA i : \A j \in 1..(i - 1) : all[j] # all[i])
    IN  [n \in 1..Len(kept) |-> all[kept[n]]]

\* the values sortedTimes may take; the comparator is
\* parseTime(a) - parseTime(b), each slot's parseTime computed once
\* (f @@ <<>> is f; it makes TLC tabulate f once)
sortedTimes(d) ==
    LET ts == timeSlots(d)
        parsed == [t \in Range(ts) |-> parseTime(t)] @@ <<>>
        cmp == [p \in Range(ts) \X Range(ts) |->
                   SubtractSign(parsed[p[1]], parsed[p[2]])] @@ <<>>
    IN  sort(ts, cmp)

\* days.sort(...): the comparator is a difference of indices, so consistent
sortedDays(d) ==
    LET days == Keys(d)
        cmp == [p \in Range(days) \X Range(days) |->
                   compareDays(p[1], p[2])] @@ <<>>
    IN  StableSort(days, cmp)

\* data[day][time] || '' as interpolated into the <td>
cell(d, day, time) ==
    LET v == Get(Get(d, day), time)
    IN  TemplateText(IF Falsy(v) THEN Str(<<>>) ELSE v)

DayHeader == <<"D", "a", "y">>

NoTable == [kind |-> "none", rows |-> <<>>]
Placeholder == [kind |-> "placeholder", rows |-> <<>>]

\* the table built for the column order times
Table(d, times) ==
    LET ds == sortedDays(d)
    IN  [kind |-> "table",
         rows |-> << <<DayHeader>> \o times >> \o
                  [r \in 1..Len(ds) |->
                      <<ds[r]>> \o [c \in 1..Len(times) |-> cell(d, ds[r], times[c])]]]

\* an empty mapping leaves the container as it was
renderTimetableKeepOnEmpty(old, d) ==
    IF Len(Keys(d)) = 0 THEN {old}
    ELSE {Table(d, times) : times \in sortedTimes(d)}

\* the contents renderTimetable(d) may give timetableContainer (old: its
\* content before the call)
renderTimetable(old, d) ==
    IF Len(Keys(d)) = 0 THEN {Placeholder}
    ELSE {Table(d, times) : times \in sortedTimes(d)}

----------------------------------------------------------------------------
(* The download handler *)

\* only a comma triggers the quoting
escapeFieldCommaOnly(text) ==
    IF includes(text, Comma) THEN <<Quote>> \o DoubleQuotes(text) \o <<Quote>>
    ELSE text

\* the if of the cell map: quote and double the quotes of a text holding a
\* comma or a double quote
escapeField(text) ==
    IF includes(text, Comma) \/ includes(text, Quote)
    THEN <<Quote>> \o DoubleQuotes(text) \o <<Quote>>
    ELSE text

\* rowData of every row: the trimmed, escaped text of its cells
RowData(rows) ==
    [r \in 1..Len(rows) |-> [c \in 1..Len(rows[r]) |-> escapeField(trim(rows[r][c]))]]

\* csv: each row's fields joined by ',' and followed by '\n'
Csv(rowDatas) ==
    Flatten([r \in 1..Len(rowDatas) |-> join(rowDatas[r], Comma) \o <<Newline>>])

\* timetableContainer.querySelector('table') finds a table
hasTable(c) == c.kind = "table"

----------------------------------------------------------------------------
(* Inputs *)

Monday == <<"M", "o", "n", "d", "a", "y">>
Tuesday == <<"T", "u", "e", "s", "d", "a", "y">>
Funday == <<"F", "u", "n", "d", "a", "y">>
Slot0900 == <<"9", ":", "0", "0", " ", "-", " ", "1", "0", ":", "0", "0">>
Slot1000 == <<"1", "0", ":", "0", "0", " ", "-", " ", "1", "1", ":", "0", "0">>
Slot1030 == <<"1", "0", ":", "3", "0", " ", "-", " ", "1", "1", ":", "3", "0">>
SlotConstructor == <<"c", "o", "n", "s", "t", "r", "u", "c", "t", "o", "r">>
MathR1 == <<"M", "a", "t", "h", " ", "(", "R", "1", ")">>
PhysR2 == <<"P", "h", "y", "s", " ", "(", "R", "2", ")">>
MathSecA == <<"M", "a", "t", "h", ",", " ", "S", "e", "c", " ", "A">>
RoomB == <<"R", "o", "o", "m", " ", "\"", "B", "\"">>
LabTwoLines == <<"L", "a", "b", "\n", "G", "1">>
BreakPadded == <<" ", "B", "r", "e", "a", "k", " ">>

DayPool == {Monday, Tuesday, Funday}
LabelPool == {Slot0900, Slot1000, Slot1030, SlotConstructor}
SubjectPool == {"DBMS", "OS"}

\* the class held by the backend's timetable for a day and a slot
Content(day, label) ==
    CASE day = Monday /\ label = Slot0900 -> MathSecA
      [] day = Monday /\ label = Slot1000 -> PhysR2
      [] day = Monday /\ label = Slot1030 -> RoomB
      [] day = Monday /\ label = SlotConstructor -> <<>>
      [] day = Tuesday /\ label = Slot0900 -> MathR1
      [] day = Tuesday /\ label = Slot1000 -> LabTwoLines
      [] day = Tuesday /\ label = Slot1030 -> MathSecA
      [] day = Tuesday /\ label = SlotConstructor -> BreakPadded
      [] day = Funday /\ label = Slot0900 -> RoomB
      [] day = Funday /\ label = Slot1000 -> LabTwoLines
      [] day = Funday /\ label = Slot1030 -> PhysR2
      [] day = Funday /\ label = SlotConstructor -> MathSecA

\* sequences without repeats of at most n elements of S
InjectiveSeqs(S, n) ==
    {q \in UNION {[1..m -> S] : m \in 0..n} :
        \A i, j \in 1..Len(q) : i # j => q[i] # q[j]}

\* the mapping with the days ds in this key order, day i holding, in the
\* order of ls, the slots ls[j] placed under it: at[j] = i, or at[j] = 0
\* for a slot under every day
Mapping(ds, ls, at) ==
    [i \in 1..Len(ds) |->
        [key |-> ds[i],
         val |-> LET js == SelectSeq([j \in 1..Len(ls) |-> j],
                                     LAMBDA j : at[j] = 0 \/ at[j] = i)
                 IN  [n \in 1..Len(js) |->
                         [key |-> ls[js[n]], val |-> Str(Content(ds[i], ls[js[n]]))]]]]

\* The ScheduleMappings rendered: every key order of at most maxDays days
\* and every first-encounter order of at most maxSlots slots, each slot
\* held by one of the days or by all of them.
ScheduleMappings(maxDays, maxSlots) ==
    UNION {UNION {{Mapping(ds, ls, at) : at \in [1..Len(ls) -> 0..Len(ds)]} :
                      ls \in InjectiveSeqs(LabelPool, maxSlots)} :
              ds \in InjectiveSeqs(DayPool, maxDays)}

EmptyMapping == <<>>

\* Example 1 of the specification
Example1 ==
    << [key |-> Tuesday, val |-> <<[key |-> Slot0900, val |-> Str(MathR1)]>>],
       [key |-> Monday, val |-> <<[key |-> Slot1000, val |-> Str(PhysR2)]>>] >>

\* the mappings the backend answers with in the whole-page specification
UiMappings == {EmptyMapping, Example1}

----------------------------------------------------------------------------
(* State after the script has loaded *)

\* index.html: #timetableContainer holds no table before the first render
InitialContainer == NoTable

\* index.html: the generate button starts disabled
InitialGenerateDisabled == TRUE

InitUi ==
    /\ subjectsList = {}
    /\ subjectsShown = FALSE
    /\ selectedSubjects = {}
    /\ generateBtnDisabled = InitialGenerateDisabled
    /\ fetching = 0
    /\ generating = <<>>

InitExport ==
    /\ rendered = FALSE
    /\ timetableContainer = InitialContainer
    /\ rowData = <<>>
    /\ downloads = <<>>
    /\ lastOp = "none"

Init == InitUi /\ InitExport /\ data = EmptyMapping

\* the grid functions applied to every ScheduleMapping
InitGrid == InitUi /\ InitExport /\ data \in ScheduleMappings(MaxDays, MaxSlots)

----------------------------------------------------------------------------
(* Handlers *)

exportVars == <<data, rendered, timetableContainer, rowData, downloads, lastOp>>

Remove(q, i) == SubSeq(q, 1, i - 1) \o SubSeq(q, i + 1, Len(q))

\* updateSelectedCount: the value given to generateBtn.disabled
updateSelectedCount(selected) == Cardinality(selected) = 0

\* click on fetchSubjectsBtn, up to the await
FetchSubjectsClick ==
    /\ fetching < MaxInFlight
    /\ fetching' = fetching + 1
    /\ subjectsShown' = FALSE
    /\ UNCHANGED <<subjectsList, selectedSubjects, generateBtnDisabled, generating>>
    /\ UNCHANGED exportVars

\* the subjects response is ok: renderSubjects(data.subjects)
FetchSubjectsOk(subjects) ==
    /\ fetching > 0
    /\ fetching' = fetching - 1
    /\ subjectsList' = subjects
    /\ selectedSubjects' = {}
    /\ generateBtnDisabled' = updateSelectedCount({})
    /\ subjectsShown' = TRUE
    /\ UNCHANGED generating
    /\ UNCHANGED exportVars

\* the subjects request fails: the catch branch shows the placeholder
FetchSubjectsFail ==
    /\ fetching > 0
    /\ fetching' = fetching - 1
    /\ UNCHANGED <<subjectsList, subjectsShown, selectedSubjects,
                   generateBtnDisabled, generating>>
    /\ UNCHANGED exportVars

\* click on the item of subject s (an item's 'selected' class holds exactly
\* when its subject is in selectedSubjects)
SubjectItemClick(s) ==
    /\ subjectsShown
    /\ s \in subjectsList
    /\ selectedSubjects' = IF s \in selectedSubjects THEN selectedSubjects \ {s}
                                                    ELSE selectedSubjects \cup {s}
    /\ generateBtnDisabled' = updateSelectedCount(selectedSubjects')
    /\ UNCHANGED <<subjectsList, subjectsShown, fetching, generating>>
    /\ UNCHANGED exportVars

\* click on generateBtn (a disabled button gets no click), up to the await
GenerateClick ==
    /\ ~generateBtnDisabled
    /\ Len(generating) < MaxInFlight
    /\ generateBtnDisabled' = TRUE
    /\ generating' = Append(generating, selectedSubjects)
    /\ UNCHANGED <<subjectsList, subjectsShown, selectedSubjects, fetching>>
    /\ UNCHANGED exportVars

\* renderTimetable(d) as called by the generate handler
RenderTimetable(d) ==
    /\ timetableContainer' \in renderTimetable(timetableContainer, d)
    /\ data' = d
    /\ rendered' = TRUE
    /\ lastOp' = "render"
    /\ UNCHANGED <<rowData, downloads>>

\* request i is answered with success and the mapping d: render, then finally
GenerateSuccess(i, d) ==
    /\ i \in 1..Len(generating)
    /\ generating' = Remove(generating, i)
    /\ RenderTimetable(d)
    /\ generateBtnDisabled' = FALSE
    /\ UNCHANGED <<subjectsList, subjectsShown, selectedSubjects, fetching>>

\* request i fails, or is answered without success: alert, then finally
GenerateNoResult(i) ==
    /\ i \in 1..Len(generating)
    /\ generating' = Remove(generating, i)
    /\ generateBtnDisabled' = FALSE
    /\ UNCHANGED <<subjectsList, subjectsShown, selectedSubjects, fetching>>
    /\ UNCHANGED exportVars

\* click on downloadBtn
DownloadClick ==
    /\ lastOp' = "download"
    /\ IF hasTable(timetableContainer)
       THEN /\ Len(downloads) < MaxDownloads
            /\ rowData' = RowData(timetableContainer.rows)
            /\ downloads' = Append(downloads, Csv(rowData'))
       ELSE UNCHANGED <<rowData, downloads>>
    /\ UNCHANGED <<data, rendered, timetableContainer>>
    /\ UNCHANGED uiVars

\* renderTimetable applied, once, to the mapping under test
GridRender ==
    /\ ~rendered
    /\ RenderTimetable(data)
    /\ UNCHANGED uiVars

----------------------------------------------------------------------------
(* Specifications *)

Next ==
    \/ FetchSubjectsClick
    \/ \E subjects \in SUBSET SubjectPool : FetchSubjectsOk(subjects)
    \/ FetchSubjectsFail
    \/ \E s \in SubjectPool : SubjectItemClick(s)
    \/ GenerateClick
    \/ \E i \in 1..MaxInFlight, d \in UiMappings : GenerateSuccess(i, d)
    \/ \E i \in 1..MaxInFlight : GenerateNoResult(i)
    \/ DownloadClick

Spec == Init /\ [][Next]_vars

NextGrid == GridRender \/ DownloadClick

SpecGrid == InitGrid /\ [][NextGrid]_vars

----------------------------------------------------------------------------
(* What the claims speak of *)

TableShown == hasTable(timetableContainer)

\* the column sequence: the header row without its leading "Day"
Columns == Tail(timetableContainer.rows[1])

\* the row sequence: the leading cell of every row below the header
RowDays ==
    [r \in 1..(Len(timetableContainer.rows) - 1) |-> timetableContainer.rows[r + 1][1]]

\* the cell of row r (a day) and column c (a slot)
CellAt(r, c) == timetableContainer.rows[r + 1][c + 1]

Weekdays == Range(dayOrder)

DayKeys == {data[i].key : i \in 1..Len(data)}

\* the slot labels a day of data holds
SlotsOf(day) ==
    UNION {IF data[i].key = day THEN {data[i].val[j].key : j \in 1..Len(data[i].val)}
                                ELSE {} : i \in 1..Len(data)}

LabelsOfData == UNION {SlotsOf(day) : day \in DayKeys}

\* the label data stores for day and slot (the day holds the slot)
StoredLabel(day, slot) ==
    LET i == CHOOSE i \in 1..Len(data) : data[i].key = day
        j == CHOOSE j \in 1..Len(data[i].val) : data[i].val[j].key = slot
    IN  data[i].val[j].val.str

\* the start of a label reads H:MM or HH:MM
ClockStart(label) ==
    LET colon == FirstIndex(label, ":")
    IN  /\ colon \in {2, 3}
        /\ \A i \in 1..(colon - 1) : label[i] \in Digits
        /\ Len(label) >= colon + 2
        /\ label[colon + 1] \in Digits /\ label[colon + 2] \in Digits
        /\ Len(label) = colon + 2 \/ label[colon + 3] \notin Digits

\* hour plus the minute digits as hundredths, in hundredths: 10:30 is
\* 10.30, that is 1030
DecimalStartKey(label) ==
    LET colon == FirstIndex(label, ":")
    IN  100 * DecimalValue(SubSeq(label, 1, colon - 1))
          + 10 * DigitVal(label[colon + 1]) + DigitVal(label[colon + 2])

\* a label whose start has a leading digit parses as a number
StartParses(label) ==
    LET first == trim(label)
    IN  first # <<>> /\ Head(first) \in Digits

\* Reading a CSV text back: rows split on the newline character, each
\* row's fields split on the commas outside quotes, doubled quotes
\* unescaped.
RECURSIVE SplitLines(_, _)
SplitLines(text, line) ==
    IF text = <<>> THEN (IF line = <<>> THEN <<>> ELSE <<line>>)
    ELSE IF Head(text) = Newline THEN <<line>> \o SplitLines(Tail(text), <<>>)
    ELSE SplitLines(Tail(text), Append(line, Head(text)))

RECURSIVE ParseFields(_, _, _, _)
ParseFields(line, i, field, quoted) ==
    IF i > Len(line) THEN <<field>>
    ELSE IF quoted
         THEN IF line[i] = Quote
              THEN IF i < Len(line) /\ line[i + 1] = Quote
                   THEN ParseFields(line, i + 2, Append(field, Quote), TRUE)
                   ELSE ParseFields(line, i + 1, field, FALSE)
              ELSE ParseFields(line, i + 1, Append(field, line[i]), TRUE)
         ELSE IF line[i] = Comma
              THEN <<field>> \o ParseFields(line, i + 1, <<>>, FALSE)
              ELSE IF line[i] = Quote /\ field = <<>>
                   THEN ParseFields(line, i + 1, field, TRUE)
                   ELSE ParseFields(line, i + 1, Append(field, line[i]), FALSE)

ParseCsv(text) ==
    LET lines == SplitLines(text, <<>>)
    IN  [r \in 1..Len(lines) |-> ParseFields(lines[r], 1, <<>>, FALSE)]

\* the texts the download handler reads off the table
DisplayRows ==
    [r \in 1..Len(timetableContainer.rows) |->
        [c \in 1..Len(timetableContainer.rows[r]) |-> trim(timetableContainer.rows[r][c])]]

\* the download handler has just exported the table shown
Exported == lastOp = "download" /\ TableShown /\ downloads # <<>>

QuoteCount(text) == Cardinality({i \in 1..Len(text) : text[i] = Quote})

\* field is text between double quotes, each quote of text doubled
QuotedForm(field, text) ==
    /\ Len(field) = Len(text) + QuoteCount(text) + 2
    /\ field[1] = Quote /\ field[Len(field)] = Quote
    /\ ParseFields(field, 1, <<>>, FALSE) = <<text>>

----------------------------------------------------------------------------
(* Claims *)

\* C1: every day key of the mapping is a row, and every day name that is
\* not one of Monday..Sunday comes after every recognised weekday present.
C1_UnknownDaysAfterWeekdays ==
    (rendered /\ TableShown) =>
        /\ \A day \in DayKeys : \E r \in 1..Len(RowDays) : RowDays[r] = day
        /\ \A r, q \in 1..Len(RowDays) :
              (RowDays[r] \notin Weekdays /\ RowDays[q] \in Weekdays) => q < r

\* C2: splitting the exported CSV text on newlines, splitting each row into
\* fields and unescaping doubled quotes gives back the rows and field texts
\* that were exported.
C2_CsvRoundTrip ==
    Exported => ParseCsv(downloads[Len(downloads)]) = DisplayRows

\* C3: a field is emitted between double quotes with its quotes doubled
\* exactly when its text holds a comma or a double quote, and verbatim
\* otherwise; 'Math, Sec A' becomes '"Math, Sec A"' and 'Room "B"' becomes
\* '"Room ""B"""'.
C3_EscapingRule ==
    Exported =>
        /\ Len(rowData) = Len(DisplayRows)
        /\ \A r \in 1..Len(DisplayRows) :
              /\ Len(rowData[r]) = Len(DisplayRows[r])
              /\ \A c \in 1..Len(DisplayRows[r]) :
                    LET text  == DisplayRows[r][c]
                        field == rowData[r][c]
                    IN  /\ IF includes(text, Comma) \/ includes(text, Quote)
                           THEN QuotedForm(field, text)
                           ELSE field = text
                        /\ text = MathSecA => field = <<"\"", "M", "a", "t", "h", ",", " ", "S", "e", "c", " ", "A", "\"">>
                        /\ text = RoomB => field = <<"\"", "R", "o", "o", "m", " ", "\"", "\"", "B", "\"", "\"", "\"">>

C3_Witness ==
    /\ Exported
    /\ \E r \in 1..Len(DisplayRows) : \E c \in 1..Len(DisplayRows[r]) :
          DisplayRows[r][c] = RoomB
    /\ \E r \in 1..Len(DisplayRows) : \E c \in 1..Len(DisplayRows[r]) :
          DisplayRows[r][c] = MathSecA
    /\ \E r \in 1..Len(DisplayRows) : \E c \in 1..Len(DisplayRows[r]) :
          DisplayRows[r][c] = MathR1 /\ rowData[r][c] = MathR1

\* C4: a label whose start does not parse as a number is still a column
\* and comes after every label whose start parses.
C4_UnparseableLabelsLast ==
    (rendered /\ TableShown) =>
        /\ \A label \in LabelsOfData : \E c \in 1..Len(Columns) : Columns[c] = label
        /\ \A c, e \in 1..Len(Columns) :
              (~StartParses(Columns[c]) /\ StartParses(Columns[e])) => e < c

\* C5 as stated: Example 1 renders with rows Monday, Tuesday and columns
\* '10:00 - 11:00', '9:00 - 10:00'.
C5_Example1AsStated ==
    (rendered /\ data = Example1) =>
        /\ TableShown
        /\ RowDays = <<Monday, Tuesday>>
        /\ Columns = <<Slot1000, Slot0900>>

\* C5 amended: Example 1 renders with rows Monday, Tuesday and columns
\* '9:00 - 10:00', '10:00 - 11:00'.
C5_Example1 ==
    (rendered /\ data = Example1) =>
        /\ TableShown
        /\ RowDays = <<Monday, Tuesday>>
        /\ Columns = <<Slot0900, Slot1000>>

C5_Witness == rendered /\ data = Example1 /\ TableShown

\* C6: when every label starts with H:MM or HH:MM, the columns are in
\* non-decreasing order of hour plus minute digits read as a decimal
\* fraction: each column's key is at most its right neighbour's.
C6_ColumnsAscending ==
    (rendered /\ TableShown /\ \A label \in LabelsOfData : ClockStart(label)) =>
        \A c \in 1..(Len(Columns) - 1) :
            DecimalStartKey(Columns[c]) <= DecimalStartKey(Columns[c + 1])

\* two slots of the same hour met in descending order and put in order
C6_Witness ==
    /\ rendered /\ TableShown
    /\ timeSlots(data) = <<Slot1030, Slot1000>>
    /\ Columns = <<Slot1000, Slot1030>>

\* C7: every label under at least one day is a column exactly once, however
\* many days hold it, and every column is a label under some day.
C7_ColumnCompleteness ==
    (rendered /\ TableShown) =>
        /\ \A label \in LabelsOfData :
              Cardinality({c \in 1..Len(Columns) : Columns[c] = label}) = 1
        /\ \A c \in 1..Len(Columns) : Columns[c] \in LabelsOfData

\* a slot held by two days, beside another slot
C7_Witness ==
    /\ rendered /\ TableShown
    /\ Len(Columns) = 2
    /\ \E label \in LabelsOfData :
          Cardinality({day \in DayKeys : label \in SlotsOf(day)}) = 2

\* C8: every cell is the label stored for its day and slot, or the empty
\* string when the day omits the slot, and every row has one cell per column.
C8_CellTotality ==
    (rendered /\ TableShown) =>
        \A r \in 1..Len(RowDays) :
            /\ Len(timetableContainer.rows[r + 1]) = Len(Columns) + 1
            /\ \A c \in 1..Len(Columns) :
                  CellAt(r, c) = IF Columns[c] \in SlotsOf(RowDays[r])
                                 THEN StoredLabel(RowDays[r], Columns[c])
                                 ELSE <<>>

\* C9: a download click made when nothing was rendered yet, or when the
\* latest render was of an empty mapping, produces no file.
C9_NoTableNoExport ==
    [][(lastOp' = "download" /\ (~rendered \/ Len(Keys(data)) = 0))
          => (downloads' = downloads /\ rowData' = rowData)]_vars

\* a download click after an empty mapping replaced an exported table
C9_Witness ==
    /\ lastOp = "download"
    /\ rendered /\ data = EmptyMapping
    /\ timetableContainer = Placeholder
    /\ downloads # <<>>

\* C10: the generate button is enabled only when no generation request is
\* in flight and at least one subject is selected.
C10_GenerateEnabledOnlyWhenIdle ==
    ~generateBtnDisabled => (generating = <<>> /\ selectedSubjects # {})
====
